---- MODULE Spec2Model ----
(***************************************************************************)
(* Model of the extended-JSON codec of fprime-gds                          *)
(* (src/fprime_gds/flask/static/js/json.js, class SaferParser).            *)
(*                                                                         *)
(* Text is a sequence of one-character strings.  JavaScript values are     *)
(* tagged records (field t).  The host runtime's JSON.parse and            *)
(* JSON.stringify, captured by the codec as language_parse and             *)
(* language_stringify, are modelled on character sequences together with   *)
(* the reviver / replacer callbacks they invoke.                           *)
(*                                                                         *)
(* Spec runs calls of the codec.  SpecPage runs the page around it:        *)
(* SaferParser.register and deregister on the global JSON object, and the  *)
(* Loader of loader.js (setup, registerPoller, poller and the callbacks of *)
(* its loads).                                                             *)
(***************************************************************************)
EXTENDS Integers, Sequences, FiniteSets, TLC

(***************************************************************************)
(* Characters.  Text held in the state and in values is a string; the      *)
(* operators below work on its sequence of characters.                     *)
(***************************************************************************)
Chars(str) == [n \in 1..Len(str) |-> SubSeq(str, n, n)]

RECURSIVE Str(_)
Str(cs) ==
    IF Len(cs) = 0 THEN ""
    ELSE IF Len(cs) = 1 THEN cs[1]
    ELSE Str(SubSeq(cs, 1, Len(cs) \div 2)) \o Str(SubSeq(cs, (Len(cs) \div 2) + 1, Len(cs)))

Min(S) == CHOOSE i \in S : \A j \in S : i <= j

Max(S) == CHOOSE i \in S : \A j \in S : i >= j

DigitChars == <<"0", "1", "2", "3", "4", "5", "6", "7", "8", "9">>

IsDigit(c) == c \in {"0", "1", "2", "3", "4", "5", "6", "7", "8", "9"}

DigitVal(c) == CHOOSE n \in 0..9 : DigitChars[n + 1] = c

\* JSON insignificant whitespace, which is also what \s and trim() see here
IsSpace(c) == c \in {" ", "\t", "\n", "\r"}

QUOTE == "\""

\* String.prototype.indexOf(pat, from) with 1-based positions; 0 when absent
IndexOf(s, pat, from) ==
    LET at == {i \in from..(Len(s) - Len(pat) + 1) : SubSeq(s, i, i + Len(pat) - 1) = pat}
    IN  IF at = {} THEN 0 ELSE Min(at)

TrimLeft(s) == SubSeq(s, Min({i \in 1..(Len(s) + 1) : i > Len(s) \/ ~IsSpace(s[i])}), Len(s))

\* String.prototype.trim
Trim(s) ==
    SubSeq(TrimLeft(s), 1,
           Max({i \in 0..Len(TrimLeft(s)) : i = 0 \/ ~IsSpace(TrimLeft(s)[i])}))

\* the letters of the texts, lower case beside upper case
Letters ==
    << <<"a", "A">>, <<"b", "B">>, <<"c", "C">>, <<"d", "D">>, <<"e", "E">>, <<"f", "F">>,
       <<"g", "G">>, <<"h", "H">>, <<"i", "I">>, <<"j", "J">>, <<"k", "K">>, <<"l", "L">>,
       <<"m", "M">>, <<"n", "N">>, <<"o", "O">>, <<"p", "P">>, <<"q", "Q">>, <<"r", "R">>,
       <<"s", "S">>, <<"t", "T">>, <<"u", "U">>, <<"v", "V">>, <<"w", "W">>, <<"x", "X">>,
       <<"y", "Y">>, <<"z", "Z">> >>

\* String.prototype.toUpperCase
ToUpperCase(s) ==
    [n \in 1..Len(s) |->
        IF \E k \in 1..Len(Letters) : Letters[k][1] = s[n]
        THEN Letters[CHOOSE k \in 1..Len(Letters) : Letters[k][1] = s[n]][2]
        ELSE s[n]]

(***************************************************************************)
(* Decimal digit strings: the magnitudes that occur exceed the integers    *)
(* the checker computes with, so arithmetic is done on digit sequences.    *)
(***************************************************************************)
\* ds without its leading zeros (one digit is always kept)
StripZeros(ds) ==
    IF ds = <<>> THEN ds
    ELSE SubSeq(ds, Min({i \in 1..Len(ds) : i = Len(ds) \/ ds[i] # "0"}), Len(ds))

\* a < b for digit strings without leading zeros: the shorter one, or of
\* two of one length the one with the smaller digit where they first differ
DecLess(a, b) ==
    \/ Len(a) < Len(b)
    \/ /\ Len(a) = Len(b)
       /\ \E i \in 1..Len(a) : a[i] # b[i]
       /\ DigitVal(a[Min({i \in 1..Len(a) : a[i] # b[i]})])
             < DigitVal(b[Min({i \in 1..Len(a) : a[i] # b[i]})])

IsOdd(ds) == DigitVal(ds[Len(ds)]) % 2 = 1

\* floor(ds / 2): the remainder a digit leaves is its parity
Halve(ds) ==
    StripZeros([i \in 1..Len(ds) |->
                   DigitChars[(((IF i > 1 THEN DigitVal(ds[i - 1]) % 2 ELSE 0) * 10
                                + DigitVal(ds[i])) \div 2) + 1]])

\* ds * 2: a digit of five or more carries one into the digit before it
Double(ds) ==
    (IF DigitVal(ds[1]) >= 5 THEN <<"1">> ELSE <<>>)
    \o [i \in 1..Len(ds) |->
           DigitChars[((2 * DigitVal(ds[i])
                        + (IF i < Len(ds) /\ DigitVal(ds[i + 1]) >= 5 THEN 1 ELSE 0)) % 10) + 1]]

\* ds + 1: the last digit that is not a nine goes up, the nines after it
\* become zeros
Inc(ds) ==
    IF \A i \in 1..Len(ds) : ds[i] = "9" THEN <<"1">> \o [i \in 1..Len(ds) |-> "0"]
    ELSE [i \in 1..Len(ds) |->
             IF i < Max({p \in 1..Len(ds) : ds[p] # "9"}) THEN ds[i]
             ELSE IF i = Max({p \in 1..Len(ds) : ds[p] # "9"})
             THEN DigitChars[DigitVal(ds[i]) + 2]
             ELSE "0"]

\* ds * 2^k
RECURSIVE DoubleTimes(_, _)
DoubleTimes(ds, k) == IF k = 0 \/ ds = <<"0">> THEN ds ELSE DoubleTimes(Double(ds), k - 1)

\* floor(ds / 2^k)
RECURSIVE HalveTimes(_, _)
HalveTimes(ds, k) == IF k = 0 \/ ds = <<"0">> THEN ds ELSE HalveTimes(Halve(ds), k - 1)

\* 2^53 = 9007199254740992: an IEEE-754 double carries 53 significant bits
TwoPow53 == <<"9","0","0","7","1","9","9","2","5","4","7","4","0","9","9","2">>

\* the number of low bits that do not fit the significand
RECURSIVE ShiftCount(_)
ShiftCount(ds) == IF DecLess(ds, TwoPow53) THEN 0 ELSE 1 + ShiftCount(Halve(ds))

\* ds rounded to a multiple of 2^k: the significand floor(ds / 2^k) goes up
\* when the last bit shifted out is set and either an earlier one is or the
\* significand is odd (round to nearest, ties to even)
RoundAt(ds, k) ==
    IF k = 0 THEN ds
    ELSE DoubleTimes(IF /\ IsOdd(HalveTimes(ds, k - 1))
                        /\ \/ DoubleTimes(HalveTimes(ds, k - 1), k - 1) # ds
                           \/ IsOdd(HalveTimes(ds, k))
                     THEN Inc(HalveTimes(ds, k))
                     ELSE HalveTimes(ds, k),
                     k)

\* a non-negative integer rounded to the nearest double
RoundToDouble(ds) == RoundAt(StripZeros(ds), ShiftCount(StripZeros(ds)))

\* ds rounded to k significant decimal digits (half up), zero padded
RoundSig(ds, k) ==
    IF k >= Len(ds) THEN ds
    ELSE LET head == SubSeq(ds, 1, k)
             up   == DigitVal(ds[k + 1]) >= 5
             h2   == IF up THEN Inc(head) ELSE head
         IN  h2 \o [n \in 1..(Len(ds) - k) |-> "0"]

\* Number.prototype.toString of an integral double below 1e21: the
\* shortest decimal that reads back as the same double, zero padded
IntToString(ds) ==
    RoundSig(ds, Min({k \in 1..Len(ds) : k = Len(ds) \/ RoundToDouble(RoundSig(ds, k)) = ds}))

(***************************************************************************)
(* JavaScript values                                                       *)
(***************************************************************************)
VUndefined == [t |-> "undefined"]

VNull == [t |-> "null"]

VBool(b) == [t |-> "boolean", b |-> b]

\* a finite Number: sign, integer digits, fraction digits (strings)
VNum(neg, int, frac) == [t |-> "number", neg |-> neg, int |-> int, frac |-> frac]

VInt(int) == VNum(FALSE, int, "")

\* Infinity and -Infinity
VInf(neg) == [t |-> "infinity", neg |-> neg]

VNaN == [t |-> "nan"]

VBigInt(neg, digits) == [t |-> "bigint", neg |-> neg, digits |-> digits]

VStr(s) == [t |-> "string", s |-> s]

VArr(e) == [t |-> "array", e |-> e]

\* an object: its keys in insertion order and the values beside them
VObj(k, v) == [t |-> "object", k |-> k, v |-> v]

\* what a call gives back: a value, or the error it throws
Ok(v) == [err |-> "", msg |-> "", v |-> v]

Throw(kind, msg) == [err |-> kind, msg |-> msg, v |-> VUndefined]

(***************************************************************************)
(* json.js: helpers and the mapping table                                  *)
(***************************************************************************)
isString(value) == value.t = "string"

\* the digit count of /( -?\d{10,})/
MinDigits == 10

CONVERSION_KEY == "fprime{replacement"

MAPPINGS ==
    << [pattern |-> "-Infinity", type |-> VInf(TRUE),      convert |-> FALSE],
       [pattern |-> "Infinity",  type |-> VInf(FALSE),     convert |-> FALSE],
       [pattern |-> "NaN",       type |-> VNaN,            convert |-> FALSE],
       [pattern |-> "null",      type |-> VNull,           convert |-> FALSE],
       [pattern |-> "",          type |-> VStr("bigint"),  convert |-> TRUE] >>

\* the length of the run of digits that starts at i
DigitRun(s, i) ==
    IF i > Len(s) THEN 0
    ELSE Min({j \in i..(Len(s) + 1) : j > Len(s) \/ ~IsDigit(s[j])}) - i

\* length of a match of / -?\d{10,}/ that starts at position p, or 0
IntMatchAt(s, p) ==
    IF p > Len(s) \/ s[p] # " " THEN 0
    ELSE LET sign == IF p + 1 <= Len(s) /\ s[p + 1] = "-" THEN 1 ELSE 0
             run  == DigitRun(s, p + 1 + sign)
         IN  IF run >= MinDigits THEN 1 + sign + run ELSE 0

\* the leftmost match of / -?\d{10,}/ from position from on
IntSearch(s, from) ==
    LET at == {p \in from..Len(s) : IntMatchAt(s, p) > 0}
    IN  IF at = {} THEN [start |-> 0, len |-> 0]
        ELSE [start |-> Min(at), len |-> IntMatchAt(s, Min(at))]

\* RegExp.prototype.exec of MAPPINGS[i][0] (no g flag): the leftmost match
RegexExec(i, s) ==
    IF MAPPINGS[i].convert THEN IntSearch(s, 1)
    ELSE LET pat == Chars(MAPPINGS[i].pattern)
         IN  [start |-> IndexOf(s, pat, 1), len |-> Len(pat)]

\* string_value.replace(mapper[0], "{\"fprime{replacement\": \"$1\"}") for
\* the match m of mapper[0]: the pattern has no g flag, so only this, the
\* leftmost match, is replaced
ReplaceOne(s, m) ==
    IF m.start = 0 THEN s
    ELSE SubSeq(s, 1, m.start - 1)
         \o Chars("{\"") \o Chars(CONVERSION_KEY) \o Chars("\": \"")
         \o SubSeq(s, m.start, m.start + m.len - 1) \o Chars("\"}")
         \o SubSeq(s, m.start + m.len, Len(s))

\* the loop over MAPPINGS; nothing matches in an empty string
RECURSIVE ReplaceLoop(_, _)
ReplaceLoop(s, i) ==
    IF i > Len(MAPPINGS) \/ s = <<>> THEN s
    ELSE ReplaceLoop(ReplaceOne(s, RegexExec(i, s)), i + 1)

replaceFromString(string_value) == ReplaceLoop(string_value, 1)

(***************************************************************************)
(* convertInt and the host functions it calls                              *)
(***************************************************************************)
\* where the digits of an optionally signed number start
SignedFrom(t) == IF t # <<>> /\ t[1] \in {"-", "+"} THEN 2 ELSE 1

\* the digits Number.parseInt reads: those right after the sign
LeadingDigits(t) ==
    SubSeq(t, SignedFrom(t), SignedFrom(t) + DigitRun(t, SignedFrom(t)) - 1)

\* Number.parseInt(t).toString() for a trimmed t: sign and leading digits
\* are read, the rest is ignored; the value is rounded to a double and
\* printed
ParseIntToString(t) ==
    IF LeadingDigits(t) = <<>> THEN Chars("NaN")
    ELSE IF Len(RoundToDouble(LeadingDigits(t))) > 21 THEN Chars("exponent-notation")
    ELSE (IF t[1] = "-" /\ RoundToDouble(LeadingDigits(t)) # <<"0">> THEN <<"-">> ELSE <<>>)
         \o IntToString(RoundToDouble(LeadingDigits(t)))

\* the double Number.parseInt(t) returns, as a value
ParseIntValue(t) ==
    IF LeadingDigits(t) = <<>> THEN VNaN
    ELSE VNum(t[1] = "-", Str(RoundToDouble(LeadingDigits(t))), "")

\* BigInt(t) for a trimmed t: an optionally signed run of digits, else a
\* SyntaxError
BigIntOf(t) ==
    IF t = <<>> THEN Ok(VBigInt(FALSE, "0"))
    ELSE IF LeadingDigits(t) = <<>> \/ SignedFrom(t) + Len(LeadingDigits(t)) - 1 # Len(t)
    THEN Throw("SyntaxError", "Cannot convert to a BigInt")
    ELSE Ok(VBigInt(t[1] = "-" /\ StripZeros(LeadingDigits(t)) # <<"0">>,
                    Str(StripZeros(LeadingDigits(t)))))

\* the body of convertInt once string_value is trimmed
ConvertTrimmed(trimmed) ==
    IF trimmed = ParseIntToString(trimmed)
    THEN Ok(ParseIntValue(trimmed))
    ELSE BigIntOf(trimmed)

convertInt(string_value) == ConvertTrimmed(Trim(string_value))

(***************************************************************************)
(* SaferParser.reviver and the composite reviver of SaferParser.parse      *)
(***************************************************************************)
\* Number.prototype.toString of a finite Number
NumToString(v) ==
    (IF v.neg /\ ~(v.int = "0" /\ v.frac = "") THEN "-" ELSE "")
    \o v.int \o (IF v.frac = "" THEN "" ELSE "." \o v.frac)

\* ToString of a primitive, as RegExp.prototype.test and the wrapper apply it
PrimToString(v) ==
    CASE v.t = "string"    -> v.s
      [] v.t = "null"      -> "null"
      [] v.t = "undefined" -> "undefined"
      [] v.t = "boolean"   -> IF v.b THEN "true" ELSE "false"
      [] v.t = "nan"       -> "NaN"
      [] v.t = "infinity"  -> IF v.neg THEN "-Infinity" ELSE "Infinity"
      [] v.t = "number"    -> NumToString(v)
      [] v.t = "bigint"    -> (IF v.neg THEN "-" ELSE "") \o v.digits
      [] OTHER             -> "[object Object]"

RECURSIVE ReviverLoop(_, _, _)
ReviverLoop(value, string_value, i) ==
    IF i > Len(MAPPINGS) THEN Ok(value)
    ELSE IF RegexExec(i, Chars(PrimToString(string_value))).start > 0
    THEN (IF MAPPINGS[i].convert
          THEN convertInt(Chars(PrimToString(string_value)))
          ELSE Ok(MAPPINGS[i].type))
    ELSE ReviverLoop(value, string_value, i + 1)

\* value[CONVERSION_KEY] is the own property of an object and undefined
\* for every other kind of value, but throws for null and undefined
reviver(key, value) ==
    IF value.t \in {"null", "undefined"}
    THEN Throw("TypeError", "can't access property \"fprime{replacement\", value is null")
    ELSE LET string_value ==
                 IF value.t = "object" /\ \E n \in 1..Len(value.k) : value.k[n] = CONVERSION_KEY
                 THEN value.v[CHOOSE n \in 1..Len(value.k) : value.k[n] = CONVERSION_KEY]
                 ELSE VUndefined
         IN  IF string_value.t = "undefined" THEN Ok(value)
             ELSE ReviverLoop(value, string_value, 1)

\* the external revivers a caller passes: none, or one that upper-cases
\* every string value
Revivers == {"none", "upper"}

input_reviver(r, key, value) ==
    IF r = "upper" /\ value.t = "string" THEN VStr(Str(ToUpperCase(Chars(value.s))))
    ELSE value

\* the external reviver sees what SaferParser.reviver returned
Revived(r, key, inner) ==
    IF inner.err # "" THEN inner ELSE Ok(input_reviver(r, key, inner.v))

full_reviver(r, key, value) == Revived(r, key, reviver(key, value))

(***************************************************************************)
(* The host's JSON.parse (language_parse): a strict JSON reader on the     *)
(* characters, then the post-order walk that calls the reviver.            *)
(***************************************************************************)
POk(v, pos) == [bad |-> 0, pos |-> pos, v |-> v]

\* a syntax error at character position at (1-based)
PErr(at) == [bad |-> at, pos |-> at, v |-> VUndefined]

\* the first position from i on that holds no whitespace
SkipWs(s, i) ==
    IF i > Len(s) THEN i
    ELSE Min({j \in i..(Len(s) + 1) : j > Len(s) \/ ~IsSpace(s[j])})

IsWord(s, i, w) == i + Len(w) - 1 <= Len(s) /\ SubSeq(s, i, i + Len(w) - 1) = w

\* the character an escape \c stands for ("" when it is no escape)
Unescape(c) ==
    CASE c = "\"" -> "\""
      [] c = "\\" -> "\\"
      [] c = "/"  -> "/"
      [] c = "n"  -> "\n"
      [] c = "t"  -> "\t"
      [] c = "r"  -> "\r"
      [] OTHER    -> ""

\* the character at j stands behind an odd run of backslashes, so it is
\* the second character of an escape of the string that starts at i
Escaped(s, i, j) ==
    (j - 1 - Max({p \in (i - 1)..(j - 1) : p = i - 1 \/ s[p] # "\\"})) % 2 = 1

\* what the string from i up to end gives, end being where its reading
\* stops; of its characters a backslash that starts an escape adds nothing
StringUpTo(s, i, end) ==
    IF end <= Len(s) /\ s[end] = QUOTE
    THEN POk(VStr(Str([n \in 1..(end - i) |->
                          IF Escaped(s, i, i + n - 1) THEN Unescape(s[i + n - 1])
                          ELSE IF s[i + n - 1] = "\\" THEN ""
                          ELSE s[i + n - 1]])),
             end + 1)
    ELSE PErr(end)

\* a string literal whose opening quote is at i - 1: its reading stops at
\* a control character, at a character that is no escape, at the closing
\* quote, or at the end of the text
ParseString(s, i) ==
    StringUpTo(s, i, Min({j \in i..Len(s) : \/ s[j] \in {"\n", "\t", "\r"}
                                            \/ (Escaped(s, i, j) /\ Unescape(s[j]) = "")
                                            \/ (s[j] = QUOTE /\ ~Escaped(s, i, j))}
                         \cup {Len(s) + 1}))

RECURSIVE DecValue(_)
DecValue(ds) ==
    IF ds = <<>> THEN 0 ELSE 10 * DecValue(SubSeq(ds, 1, Len(ds) - 1)) + DigitVal(ds[Len(ds)])

Zeros(n) == [k \in 1..n |-> "0"]

\* the double a JSON number literal denotes: the exponent shifts the
\* decimal point, and an integral result is rounded to a double
NumberOfLiteral(neg, int, frac, eneg, exp) ==
    LET e     == DecValue(exp)
        int2  == IF eneg THEN SubSeq(Zeros(e) \o int, 1, Len(int))
                 ELSE int \o SubSeq(frac \o Zeros(e), 1, e)
        frac2 == IF eneg THEN SubSeq(Zeros(e) \o int, Len(int) + 1, Len(int) + e) \o frac
                 ELSE SubSeq(frac \o Zeros(e), e + 1, Len(frac) + e)
        f3    == SubSeq(frac2, 1, Max({i \in 0..Len(frac2) : i = 0 \/ frac2[i] # "0"}))
    IN  IF f3 = <<>> THEN VNum(neg, Str(RoundToDouble(int2)), "")
        ELSE VNum(neg, Str(StripZeros(int2)), Str(f3))

\* the end of the integer part 0|[1-9]\d* that starts at istart
IntEnd(s, istart) ==
    istart + (IF istart <= Len(s) /\ s[istart] = "0" THEN 1 ELSE DigitRun(s, istart))

HasFrac(s, iend) == iend <= Len(s) /\ s[iend] = "."

\* the end of the fraction (\.\d+)? that starts at iend
FracEnd(s, iend) == IF HasFrac(s, iend) THEN iend + 1 + DigitRun(s, iend + 1) ELSE iend

HasExp(s, fend) == fend <= Len(s) /\ s[fend] \in {"e", "E"}

ExpSign(s, fend) == HasExp(s, fend) /\ fend + 1 <= Len(s) /\ s[fend + 1] \in {"+", "-"}

ExpStart(s, fend) == IF ExpSign(s, fend) THEN fend + 2 ELSE fend + 1

\* the end of the exponent ([eE][+-]?\d+)? that starts at fend
ExpEnd(s, fend) ==
    IF HasExp(s, fend) THEN ExpStart(s, fend) + DigitRun(s, ExpStart(s, fend)) ELSE fend

NumberAt(s, neg, istart, iend, fend, estart, eend) ==
    IF iend = istart THEN PErr(istart)
    ELSE IF HasFrac(s, iend) /\ fend = iend + 1 THEN PErr(iend + 1)
    ELSE IF HasExp(s, fend) /\ eend = estart THEN PErr(estart)
    ELSE POk(NumberOfLiteral(neg,
                             SubSeq(s, istart, iend - 1),
                             IF HasFrac(s, iend) THEN SubSeq(s, iend + 1, fend - 1) ELSE <<>>,
                             ExpSign(s, fend) /\ s[fend + 1] = "-",
                             IF HasExp(s, fend) THEN SubSeq(s, estart, eend - 1) ELSE <<>>),
             eend)

\* a number literal starting at i: -?(0|[1-9]\d*)(\.\d+)?([eE][+-]?\d+)?
ParseNumber(s, i) ==
    LET istart == IF s[i] = "-" THEN i + 1 ELSE i
    IN  NumberAt(s, s[i] = "-", istart, IntEnd(s, istart), FracEnd(s, IntEnd(s, istart)),
                 ExpStart(s, FracEnd(s, IntEnd(s, istart))),
                 ExpEnd(s, FracEnd(s, IntEnd(s, istart))))

\* obj[key] = value, keeping the place of a key already present
SetKey(obj, key, value) ==
    IF \E n \in 1..Len(obj.k) : obj.k[n] = key
    THEN VObj(obj.k, [obj.v EXCEPT ![CHOOSE n \in 1..Len(obj.k) : obj.k[n] = key] = value])
    ELSE VObj(Append(obj.k, key), Append(obj.v, value))

RECURSIVE ParseValue(_, _)
RECURSIVE ParseElems(_, _, _, _)
RECURSIVE ParseMembers(_, _, _, _)

\* the value that starts at position i (whitespace already skipped)
ParseValue(s, i) ==
    IF i > Len(s) THEN PErr(i)
    ELSE IF s[i] = "{" THEN ParseMembers(s, SkipWs(s, i + 1), VObj(<<>>, <<>>), TRUE)
    ELSE IF s[i] = "[" THEN ParseElems(s, SkipWs(s, i + 1), <<>>, TRUE)
    ELSE IF s[i] = QUOTE THEN ParseString(s, i + 1)
    ELSE IF s[i] = "-" \/ IsDigit(s[i]) THEN ParseNumber(s, i)
    ELSE IF IsWord(s, i, Chars("true")) THEN POk(VBool(TRUE), i + 4)
    ELSE IF IsWord(s, i, Chars("false")) THEN POk(VBool(FALSE), i + 5)
    ELSE IF IsWord(s, i, Chars("null")) THEN POk(VNull, i + 4)
    ELSE PErr(i)

\* after the element r of an array: a comma, the closing bracket, or an error
AfterElem(s, acc, r) ==
    IF r.bad > 0 THEN r
    ELSE LET j == SkipWs(s, r.pos)
         IN  IF j > Len(s) THEN PErr(j)
             ELSE IF s[j] = "," THEN ParseElems(s, SkipWs(s, j + 1), Append(acc, r.v), FALSE)
             ELSE IF s[j] = "]" THEN POk(VArr(Append(acc, r.v)), j + 1)
             ELSE PErr(j)

\* the elements of an array from position i; first: none has been read yet
ParseElems(s, i, acc, first) ==
    IF first /\ i <= Len(s) /\ s[i] = "]" THEN POk(VArr(<<>>), i + 1)
    ELSE AfterElem(s, acc, ParseValue(s, i))

\* after the member k : r of an object
AfterMember(s, obj, k, r) ==
    IF r.bad > 0 THEN r
    ELSE LET j == SkipWs(s, r.pos)
         IN  IF j > Len(s) THEN PErr(j)
             ELSE IF s[j] = ","
             THEN ParseMembers(s, SkipWs(s, j + 1), SetKey(obj, k.v.s, r.v), FALSE)
             ELSE IF s[j] = "}" THEN POk(SetKey(obj, k.v.s, r.v), j + 1)
             ELSE PErr(j)

\* the members of an object from position i; first: none has been read
\* yet.  A member is a key, the colon, and the member's value.
ParseMembers(s, i, obj, first) ==
    IF first /\ i <= Len(s) /\ s[i] = "}" THEN POk(obj, i + 1)
    ELSE IF i > Len(s) \/ s[i] # QUOTE THEN PErr(i)
    ELSE LET k == ParseString(s, i + 1)
             c == SkipWs(s, k.pos)
         IN  IF k.bad > 0 THEN k
             ELSE IF c > Len(s) \/ s[c] # ":" THEN PErr(c)
             ELSE AfterMember(s, obj, k, ParseValue(s, SkipWs(s, c + 1)))

\* the whole text as one JSON value: nothing but whitespace may follow it
ParseText(s) ==
    LET r == ParseValue(s, SkipWs(s, 1))
    IN  IF r.bad > 0 THEN r
        ELSE IF SkipWs(s, r.pos) <= Len(s) THEN PErr(SkipWs(s, r.pos))
        ELSE r

\* decimal text of a small natural number
RECURSIVE DecStr(_)
DecStr(n) == IF n < 10 THEN DigitChars[n + 1] ELSE DecStr(n \div 10) \o DigitChars[(n % 10) + 1]

\* InternalizeJSONProperty: children first, in order, then the holder; a
\* member revived to undefined is deleted; the first throw ends the walk
RECURSIVE Walk(_, _, _)
RECURSIVE WalkElems(_, _, _, _)
RECURSIVE WalkMembers(_, _, _, _)

\* the holder is revived after its children
AfterChildren(r, key, kids) ==
    IF kids.err # "" THEN kids ELSE full_reviver(r, key, kids.v)

Walk(r, key, val) ==
    AfterChildren(r, key,
                  IF val.t = "array" THEN WalkElems(r, val.e, 1, <<>>)
                  ELSE IF val.t = "object" THEN WalkMembers(r, val, 1, VObj(<<>>, <<>>))
                  ELSE Ok(val))

ElemWalked(r, e, i, acc, kid) ==
    IF kid.err # "" THEN kid ELSE WalkElems(r, e, i + 1, Append(acc, kid.v))

WalkElems(r, e, i, acc) ==
    IF i > Len(e) THEN Ok(VArr(acc))
    ELSE ElemWalked(r, e, i, acc, Walk(r, DecStr(i - 1), e[i]))

MemberWalked(r, obj, i, acc, kid) ==
    IF kid.err # "" THEN kid
    ELSE WalkMembers(r, obj, i + 1,
                     IF kid.v.t = "undefined" THEN acc
                     ELSE VObj(Append(acc.k, obj.k[i]), Append(acc.v, kid.v)))

WalkMembers(r, obj, i, acc) ==
    IF i > Len(obj.k) THEN Ok(acc)
    ELSE MemberWalked(r, obj, i, acc, Walk(r, obj.k[i], obj.v[i]))

\* the positions of the line feeds in s before position at
LineFeedsBefore(s, at) == {i \in 1..(at - 1) : i <= Len(s) /\ s[i] = "\n"}

\* The hosts the page runs on word a JSON syntax error differently: one
\* reports a line and a column, the other a character position.
Engines == {"line-column", "position"}

SyntaxErrorMessage(engine, s, at) ==
    IF engine = "line-column"
    THEN "JSON.parse: unexpected character at line "
         \o DecStr(Cardinality(LineFeedsBefore(s, at)) + 1) \o " column "
         \o DecStr(at - Max(LineFeedsBefore(s, at) \cup {0})) \o " of the JSON data"
    ELSE "Unexpected token in JSON at position " \o DecStr(at - 1)

\* the reader's result p: a SyntaxError, or the walk over the value read
Internalize(engine, text, r, p) ==
    IF p.bad > 0
    THEN Throw("SyntaxError", SyntaxErrorMessage(engine, Chars(text), p.bad))
    ELSE Walk(r, "", p.v)

\* language_parse(text, reviver); text is a string
language_parse(engine, text, r) == Internalize(engine, text, r, ParseText(Chars(text)))

(***************************************************************************)
(* SaferParser.processUnquoted: one pass of its while loop                 *)
(***************************************************************************)
UNQUOTED == 0

QUOTED == 1

\* the loop's locals: state, unprocessed, transformed_data; process_function
\* is the argument ("replaceFromString" as parse passes it, "identity" for a
\* caller's (section) => section); sections lists the sections cut so far
ScanStart(json_string, process_function) ==
    [state |-> UNQUOTED, unprocessed |-> json_string, transformed_data |-> "",
     process_function |-> process_function, sections |-> <<>>]

\* one pass that loses the character after the section
ScanPassSkips(sc) ==
    LET u          == Chars(sc.unprocessed)
        next_quote == IndexOf(u, <<QUOTE>>, 1)
        section    == IF next_quote # 0 THEN SubSeq(u, 1, next_quote) ELSE u
    IN  [state |-> IF sc.state = QUOTED THEN UNQUOTED ELSE QUOTED,
         unprocessed |-> Str(SubSeq(u, Len(section) + 2, Len(u))),
         transformed_data |-> sc.transformed_data \o Str(section),
         process_function |-> sc.process_function,
         sections |-> Append(sc.sections, Str(section))]

\* one pass: the section cut off runs up to and including the next double
\* quote character, whatever precedes it, else over all that is left
ScanPass(sc) ==
    LET u          == Chars(sc.unprocessed)
        next_quote == IndexOf(u, <<QUOTE>>, 1)
        section    == IF next_quote # 0 THEN SubSeq(u, 1, next_quote) ELSE u
    IN  [state |-> IF sc.state = QUOTED THEN UNQUOTED ELSE QUOTED,
         unprocessed |-> Str(SubSeq(u, Len(section) + 1, Len(u))),
         transformed_data |->
             sc.transformed_data \o
             (IF sc.state = QUOTED \/ sc.process_function = "identity"
              THEN Str(section)
              ELSE Str(replaceFromString(section))),
         process_function |-> sc.process_function,
         sections |-> Append(sc.sections, Str(section))]

(***************************************************************************)
(* SaferParser.parse: the native decode and the catch block                *)
(***************************************************************************)
\* the leftmost match of /line (\d+) column (\d+)/ in a message
LineColumnAt(m, p) ==
    LET lrun == DigitRun(m, p + 5)
        cpos == p + 5 + lrun
        crun == DigitRun(m, cpos + 8)
    IN  IF IsWord(m, p, Chars("line ")) /\ lrun > 0
           /\ IsWord(m, cpos, Chars(" column ")) /\ crun > 0
        THEN [found |-> TRUE,
              line |-> DecValue(SubSeq(m, p + 5, p + 4 + lrun)),
              column |-> DecValue(SubSeq(m, cpos + 8, cpos + 7 + crun))]
        ELSE [found |-> FALSE, line |-> 0, column |-> 0]

\* message.match(matcher): the leftmost match
MatchLineColumn(m, from) ==
    LET at == {p \in from..Len(m) : LineColumnAt(m, p).found}
    IN  IF at = {} THEN [found |-> FALSE, line |-> 0, column |-> 0]
        ELSE LineColumnAt(m, Min(at))

\* String.prototype.split("\n")
RECURSIVE Split(_)
Split(s) ==
    LET nl == IndexOf(s, <<"\n">>, 1)
    IN  IF nl = 0 THEN <<s>> ELSE <<SubSeq(s, 1, nl - 1)>> \o Split(SubSeq(s, nl + 1, Len(s)))

\* String.prototype.substring(a, b), 0-based, end exclusive: both ends are
\* clamped to the string and swapped when out of order
Substring(s, a, b) ==
    LET x == IF a < 0 THEN 0 ELSE IF a > Len(s) THEN Len(s) ELSE a
        y == IF b < 0 THEN 0 ELSE IF b > Len(s) THEN Len(s) ELSE b
    IN  IF x <= y THEN SubSeq(s, x + 1, y) ELSE SubSeq(s, y + 1, x)

\* the snippet begun one character late
SnippetShifted(line, column) == Substring(line, column - 5, column + 5)

\* line.substring(column - 6, column + 5)
Snippet(line, column) == Substring(line, column - 6, column + 5)

\* Error.prototype.toString
ErrorToString(e) == e.err \o ": " \o e.msg

\* the body of the catch block: message is e's text, match what the
\* pattern found in it, lines the lines of converted_data
Enrich(e, message, match, lines) ==
    IF match.found
    THEN (IF match.line < 1 \/ match.line > Len(lines)
          THEN Throw("TypeError", "line is undefined")
          ELSE Throw("SyntaxError",
                     message \o ". Offending snippet: "
                     \o Str(Snippet(lines[match.line], match.column))))
    ELSE e

\* try { return language_parse(...) } catch (e) { ... }: what was
\* returned, or what the catch block throws for what was thrown
TryCatch(converted_data, language_parsed) ==
    IF language_parsed.err = "" THEN language_parsed
    ELSE Enrich(language_parsed, ErrorToString(language_parsed),
                MatchLineColumn(Chars(ErrorToString(language_parsed)), 1),
                Split(Chars(converted_data)))

\* the try statement, after processUnquoted has produced converted_data
ParseDecode(engine, converted_data, r) ==
    TryCatch(converted_data, language_parse(engine, converted_data, r))

(***************************************************************************)
(* SaferParser.replaceFromObject and the composite replacer of stringify   *)
(***************************************************************************)
RECURSIVE JoinStrings(_, _)
JoinStrings(parts, sep) ==
    IF parts = <<>> THEN ""
    ELSE IF Len(parts) = 1 THEN parts[1]
    ELSE parts[1] \o sep \o JoinStrings(Tail(parts), sep)

\* ToString of any value: Array.prototype.toString joins the elements
\* with commas, null and undefined elements giving the empty string
RECURSIVE ValueToString(_)
ValueToString(v) ==
    IF v.t = "array"
    THEN JoinStrings([n \in 1..Len(v.e) |->
                         IF v.e[n].t \in {"null", "undefined"} THEN ""
                         ELSE ValueToString(v.e[n])], ",")
    ELSE PrimToString(v)

\* value == mapper_type, the loose equality of JavaScript, for the four
\* constants of the table.  Against a Number an operand that is a string,
\* or an object turned into one, is converted by ToNumber, which reads
\* "Infinity", "+Infinity" and "-Infinity" (white space trimmed) as the
\* infinities; nothing equals NaN; only null and undefined equal null.
LooseEquals(value, mapper_type) ==
    CASE mapper_type.t = "null" -> value.t \in {"null", "undefined"}
      [] mapper_type.t = "nan"  -> FALSE
      [] mapper_type.t = "infinity" ->
            IF value.t = "infinity" THEN value.neg = mapper_type.neg
            ELSE IF value.t \in {"string", "array", "object"}
            THEN LET text == Trim(Chars(ValueToString(value)))
                 IN  IF mapper_type.neg THEN text = Chars("-Infinity")
                     ELSE text \in {Chars("Infinity"), Chars("+Infinity")}
            ELSE FALSE
      [] OTHER -> FALSE

\* typeof value
TypeOf(value) ==
    CASE value.t \in {"number", "infinity", "nan"} -> "number"
      [] value.t \in {"null", "array", "object"}   -> "object"
      [] OTHER                                      -> value.t

RECURSIVE ReplaceFromObjectLoop(_, _)
ReplaceFromObjectLoop(value, i) ==
    IF i > Len(MAPPINGS) THEN value
    ELSE LET mapper_type      == MAPPINGS[i].type
             mapper_is_string == isString(mapper_type)
         IN  IF (~mapper_is_string /\ LooseEquals(value, mapper_type))
                \/ (mapper_is_string /\ TypeOf(value) = mapper_type.s)
             THEN VObj(<<CONVERSION_KEY>>,
                       <<VStr(IF value.t \in {"null", "undefined"} THEN "null"
                              ELSE ValueToString(value))>>)
             ELSE ReplaceFromObjectLoop(value, i + 1)

replaceFromObject(key, value) == ReplaceFromObjectLoop(value, 1)

\* the replacer argument of stringify: absent, a list of keys, or a
\* function (here one that upper-cases string values)
NoReplacer == [kind |-> "none", keys |-> <<>>]

KeyList(keys) == [kind |-> "array", keys |-> keys]

UpperReplacer == [kind |-> "function", keys |-> <<>>]

full_replacer(replacer, key, value) ==
    IF replacer.kind = "array" /\ ~(\E n \in 1..Len(replacer.keys) : replacer.keys[n] = key)
    THEN VUndefined
    ELSE replaceFromObject(key,
             IF replacer.kind = "function" /\ value.t = "string"
             THEN VStr(Str(ToUpperCase(Chars(value.s))))
             ELSE value)

(***************************************************************************)
(* The host's JSON.stringify (language_stringify) with a replacer function *)
(***************************************************************************)
\* the depth of calls the host allows before it throws a RangeError
MaxStack == 5

\* what serialising one property gives: text, nothing (undefined), or a throw
SText(text) == [err |-> "", msg |-> "", undef |-> FALSE, text |-> text]

SUndefined == [err |-> "", msg |-> "", undef |-> TRUE, text |-> ""]

SThrow(kind, msg) == [err |-> kind, msg |-> msg, undef |-> FALSE, text |-> ""]

\* QuoteJSONString
QuoteJSON(str) ==
    "\"" \o Str([n \in 1..Len(str) |->
                    CASE SubSeq(str, n, n) = "\"" -> "\\\""
                      [] SubSeq(str, n, n) = "\\" -> "\\\\"
                      [] SubSeq(str, n, n) = "\n" -> "\\n"
                      [] SubSeq(str, n, n) = "\t" -> "\\t"
                      [] SubSeq(str, n, n) = "\r" -> "\\r"
                      [] OTHER                    -> SubSeq(str, n, n)])
    \o "\""

RECURSIVE SerializeProperty(_, _, _, _, _, _)
RECURSIVE SerializeElems(_, _, _, _, _, _, _)
RECURSIVE SerializeMembers(_, _, _, _, _, _, _)

\* the text of an array or object from the texts of its parts; indent is
\* the indentation of the holder, gap the indentation step
Enclose(parts, open, close, indent, gap) ==
    IF parts.err # "" THEN parts
    ELSE IF parts.text = <<>> THEN SText(open \o close)
    ELSE IF gap = "" THEN SText(open \o JoinStrings(parts.text, ",") \o close)
    ELSE SText(open \o "\n" \o indent \o gap
               \o JoinStrings(parts.text, ",\n" \o indent \o gap)
               \o "\n" \o indent \o close)

\* the value the replacer returned, serialised
SerializeValue(replacer, value, indent, gap, depth) ==
    CASE value.t = "null" -> SText("null")
      [] value.t = "boolean" -> SText(IF value.b THEN "true" ELSE "false")
      [] value.t = "string" -> SText(QuoteJSON(value.s))
      [] value.t = "number" -> SText(NumToString(value))
      [] value.t \in {"infinity", "nan"} -> SText("null")
      [] value.t = "bigint" ->
            SThrow("TypeError", "BigInt value can't be serialized in JSON")
      [] value.t = "array" ->
            Enclose(SerializeElems(replacer, value.e, 1, <<>>, indent \o gap, gap, depth + 1),
                    "[", "]", indent, gap)
      [] value.t = "object" ->
            Enclose(SerializeMembers(replacer, value, 1, <<>>, indent \o gap, gap, depth + 1),
                    "{", "}", indent, gap)
      [] OTHER -> SUndefined

\* SerializeJSONProperty: the replacer sees the value first
SerializeProperty(replacer, key, held, indent, gap, depth) ==
    IF depth > MaxStack THEN SThrow("RangeError", "too much recursion")
    ELSE SerializeValue(replacer, full_replacer(replacer, key, held), indent, gap, depth)

ElemSerialized(replacer, e, i, acc, indent, gap, depth, one) ==
    IF one.err # "" THEN one
    ELSE SerializeElems(replacer, e, i + 1,
                        Append(acc, IF one.undef THEN "null" ELSE one.text),
                        indent, gap, depth)

\* the elements of an array; one serialised to undefined is written null
SerializeElems(replacer, e, i, acc, indent, gap, depth) ==
    IF i > Len(e) THEN SText(acc)
    ELSE ElemSerialized(replacer, e, i, acc, indent, gap, depth,
                        SerializeProperty(replacer, DecStr(i - 1), e[i], indent, gap, depth))

MemberSerialized(replacer, obj, i, acc, indent, gap, depth, one) ==
    IF one.err # "" THEN one
    ELSE SerializeMembers(replacer, obj, i + 1,
                          IF one.undef THEN acc
                          ELSE Append(acc, QuoteJSON(obj.k[i]) \o ":"
                                           \o (IF gap = "" THEN "" ELSE " ") \o one.text),
                          indent, gap, depth)

\* the members of an object; one serialised to undefined is left out
SerializeMembers(replacer, obj, i, acc, indent, gap, depth) ==
    IF i > Len(obj.k) THEN SText(acc)
    ELSE MemberSerialized(replacer, obj, i, acc, indent, gap, depth,
                          SerializeProperty(replacer, obj.k[i], obj.v[i], indent, gap, depth))

\* language_stringify(data, full_replacer, space); space is a number of
\* spaces, of which the host uses at most ten
language_stringify(data, replacer, space) ==
    SerializeProperty(replacer, "", data, "",
                      Str([k \in 1..(IF space > 10 THEN 10 ELSE space) |-> " "]), 1)

(***************************************************************************)
(* SaferParser.postReplacer and SaferParser.stringify                      *)
(***************************************************************************)
\* a match of /\{\s*"fprime\{replacement"\s*:\s*"([^"]+)"\s*\}/ at p
WrapperMatchAt(s, p) ==
    LET key    == <<QUOTE>> \o Chars(CONVERSION_KEY) \o <<QUOTE>>
        k      == SkipWs(s, p + 1)
        c      == SkipWs(s, k + Len(key))
        q      == SkipWs(s, c + 1)
        run    == IF q + 1 > Len(s) THEN 0
                  ELSE Min({j \in (q + 1)..(Len(s) + 1) : j > Len(s) \/ s[j] = QUOTE}) - q - 1
        close  == q + 1 + run
        b      == SkipWs(s, close + 1)
    IN  IF /\ p <= Len(s) /\ s[p] = "{"
           /\ IsWord(s, k, key)
           /\ c <= Len(s) /\ s[c] = ":"
           /\ q <= Len(s) /\ s[q] = QUOTE
           /\ run > 0
           /\ close <= Len(s) /\ s[close] = QUOTE
           /\ b <= Len(s) /\ s[b] = "}"
        THEN [len |-> b - p + 1, payload |-> SubSeq(s, q + 1, close - 1)]
        ELSE [len |-> 0, payload |-> <<>>]

RECURSIVE ReplaceWrappers(_, _)
\* the leftmost of the matches at, replaced by its payload, then the rest
ReplaceFrom(s, p, at) ==
    IF at = {} THEN SubSeq(s, p, Len(s))
    ELSE SubSeq(s, p, Min(at) - 1) \o WrapperMatchAt(s, Min(at)).payload
         \o ReplaceWrappers(s, Min(at) + WrapperMatchAt(s, Min(at)).len)

\* json_string.replace(/.../sg, "$1"): every match, left to right
ReplaceWrappers(s, p) == ReplaceFrom(s, p, {i \in p..Len(s) : WrapperMatchAt(s, i).len > 0})

postReplacer(json_string) == Str(ReplaceWrappers(Chars(json_string), 1))

\* what stringify does with the host's result
PostProcess(json_string) ==
    IF json_string.err # "" THEN Throw(json_string.err, json_string.msg)
    ELSE IF json_string.undef
    THEN Throw("TypeError", "json_string is undefined")
    ELSE Ok(VStr(postReplacer(json_string.text)))

stringify(data, replacer, space) == PostProcess(language_stringify(data, replacer, space))

(***************************************************************************)
(* The calls the model makes                                               *)
(***************************************************************************)
\* integer literals of ten and more digits on both sides of 2^53
IntLiterals ==
    { "1234567890", "-1234567890", "9007199254740992", "9007199254740993",
      "-9007199254740993", "9007199254740994", "12345678901234567000" }

\* the places a JSON value can stand in: what precedes and follows it
ValuePlaces ==
    { <<"", "">>, <<"[", "]">>, <<"[ ", " ]">>, <<"{\"a\":", "}">>,
      <<"{\"a\": ", "}">>, <<"[1,", "]">>, <<"[1, ", "]">>, <<"[\n", "\n]">> }

IntTexts == { pl[1] \o lit \o pl[2] : pl \in ValuePlaces, lit \in IntLiterals }

\* one extended literal as the whole text or alone in its segment
LiteralTexts ==
    { "-Infinity", "Infinity", "NaN", "null", "[-Infinity]", "[Infinity]",
      "{\"a\": NaN}", "{\"a\": null, \"b\": -Infinity}" }

\* two and more extended literals in one unquoted segment
MultiTokenTexts ==
    { "[Infinity, Infinity]", "[NaN, 1, null, null]", "[NaN, Infinity]",
      "[null, NaN, Infinity]", "[ 9007199254740993, 9007199254740995]" }

\* texts of standard JSON
StrictTexts ==
    { "[null,null]", "{\"a\": null, \"b\": null}", "[1234567890.5]", "[ 1234567890.5]",
      "[ 1234567890e2]", "[ -1234567890.25e-1]", "{\"s\": \"a\\\"b\\\\\", \"t\": true}",
      " [ 1 ,\n\t2 ] ", "[ 9007199254740993]", "[true, false, {}]", "[0.5, 1e3, []]" }

\* texts whose string literals hold what reads like an extended literal
QuotedTexts ==
    { "\"Infinity\"", "[\"null\", \" 12345678901234567890\"]", "\"a\\\"Infinity\"",
      "[\"-Infinity\", \"NaN\"]", "[\"say \\\"NaN\\\" twice\"]",
      "[\"\\\"\", Infinity]", "{\"x\": \"Infinity\", \"y\": Infinity}" }

\* texts the native decoder rejects
MalformedTexts ==
    { "{\"a\": ,}", "[1,\n 2,\n  x]", "[1,\n 2,\n             nope, 3, 4, 5]", "",
      "{\"a\": 1,\n\"b\": tru }", "[1, 2", "{\"key\": 1 \"other\": 2}",
      "[\n\n\n  ,1]" }

ParseTexts ==
    IntTexts \cup LiteralTexts \cup MultiTokenTexts \cup StrictTexts
    \cup QuotedTexts \cup MalformedTexts

BigA == VBigInt(FALSE, "9007199254740993")

BigB == VBigInt(TRUE, "12345678901234567890")

\* extended values, alone and nested
ExtendedDocs ==
    { VInf(FALSE), VInf(TRUE), VNaN, VNull, BigA, BigB, VBigInt(FALSE, "5"),
      VArr(<<VNull>>), VArr(<<VNaN>>), VArr(<<BigA>>), VArr(<<VInf(TRUE)>>),
      VObj(<<"a">>, <<VNull>>), VObj(<<"a">>, <<BigB>>),
      VObj(<<"a", "b">>, <<VInf(FALSE), VNull>>),
      VObj(<<"a", "b">>, <<VArr(<<BigA, VNull>>), VNull>>) }

\* documents of objects, arrays, booleans, finite numbers and strings
PlainDocs ==
    { VStr("Infinity"), VStr("-Infinity"), VStr("NaN"), VStr("null"), VStr("12345678901"),
      VStr("a\"b"), VStr("a\"NaN"),
      VArr(<<VStr("Infinity")>>), VArr(<<VStr("NaN")>>), VArr(<<VStr("null")>>),
      VArr(<<>>), VObj(<<>>, <<>>), VInt("12345678901"), VBool(FALSE),
      VNum(TRUE, "0", "25"),
      VObj(<<"n">>, <<VNum(FALSE, "12345678901", "5")>>),
      VObj(<<"a", "b">>, <<VInt("1"), VArr(<<VBool(TRUE), VStr("x")>>)>>) }

\* objects for the key lists
KeyedDocs ==
    { VObj(<<"a", "b">>, <<VInt("1"), VInt("2")>>),
      VObj(<<"a", "b">>, <<VArr(<<VInt("1"), VNull>>), VInt("2")>>),
      VObj(<<"a", "c">>, <<VObj(<<"a", "b">>, <<BigA, VStr("x")>>), VBool(TRUE)>>),
      VObj(<<"b">>, <<VStr("y")>>) }

\* texts for processUnquoted with a caller's process function: no, one, an
\* even and an odd number of double quotes, adjacent, leading and trailing
ScanTexts ==
    { "", "abc", "\"", "a\"", "\"a", "a\"b", "\"\"", "\"a\"", "a\"b\"c", "\"\"\"",
      "a\"b\"c\"d", "\"\"\"\"", "[NaN, \"a\", null]", "{\"k\": \"a\\\"b\"}",
      "[\"x\", \"y\"]\n", "\"say \"NaN\" twice" }

Documents == ExtendedDocs \cup PlainDocs \cup KeyedDocs

Replacers ==
    { NoReplacer, UpperReplacer, KeyList(<<"a">>), KeyList(<<"", "a">>),
      KeyList(<<"", "a", "b">>) }

\* the indent arguments: none, and MaxSpace spaces
MaxSpace == 2

Spacings == {0, MaxSpace}

(***************************************************************************)
(* State                                                                   *)
(***************************************************************************)
VARIABLES
    engine,       \* how the host words a JSON syntax error
    pc,           \* "idle", "scan" (inside processUnquoted), "done"
    fn,           \* the codec function running or returned: parse, stringify
    origin,       \* "caller", or "stringify" when parse reads stringify's text
    json_string,  \* parse's argument
    ext_reviver,  \* parse's reviver argument
    data,         \* stringify's arguments
    replacer,
    space,
    scan,         \* processUnquoted's locals
    result,       \* what the call returned or threw
    JSON,         \* the global JSON object's parse and stringify properties
    SaferParser,  \* the class's static language_parse and language_stringify
    last_call,    \* which of register and deregister ran last
    prev_call,    \* and which ran before it ("load": the module had just loaded)
    endpoints,    \* Loader.endpoints: name -> context
    requests,     \* per polled endpoint, the loads the poller has issued
    setup         \* Loader.setup: the promise, the closure's pending, its loads

codecVars == <<engine, pc, fn, origin, json_string, ext_reviver, data, replacer, space,
               scan, result>>

pageVars == <<JSON, SaferParser, last_call, prev_call, endpoints, requests, setup>>

vars == <<codecVars, pageVars>>

NoResult == Ok(VUndefined)

\* the host's JSON.parse and JSON.stringify, named as function identities
NativeJSON == [parse |-> "native JSON.parse", stringify |-> "native JSON.stringify"]

\* new Loader(): the endpoints with the fields the code reads and writes
\* (interval: whether registerPoller has set a timer; data "undefined" until
\* setup assigns it), two dictionaries and one polled endpoint of the ten
NewEndpoints ==
    [name \in {"command-dict", "event-dict", "events"} |->
        [startup |-> name \in {"command-dict", "event-dict"}, running |-> FALSE,
         queued |-> FALSE, data |-> "undefined", interval |-> FALSE]]

Init ==
    /\ engine \in Engines
    /\ pc = "idle"
    /\ fn = "none"
    /\ origin = "caller"
    /\ json_string = ""
    /\ ext_reviver = "none"
    /\ data = VUndefined
    /\ replacer = NoReplacer
    /\ space = 0
    /\ scan = ScanStart("", "replaceFromString")
    /\ result = NoResult
    /\ SaferParser = [language_parse |-> NativeJSON.parse,
                      language_stringify |-> NativeJSON.stringify]
    /\ JSON = [parse |-> "SaferParser.parse", stringify |-> "SaferParser.stringify"]
    /\ last_call = "register"
    /\ prev_call = "load"
    /\ endpoints = NewEndpoints
    /\ requests = [name \in {n \in DOMAIN NewEndpoints : ~NewEndpoints[n].startup} |-> <<>>]
    /\ setup = [promise |-> "none", pending |-> 0,
                loads |-> [name \in {n \in DOMAIN NewEndpoints : NewEndpoints[n].startup}
                              |-> "none"]]

\* a caller enters SaferParser.parse(text, r)
CallParse ==
    /\ pc = "idle"
    /\ \E text \in ParseTexts, r \in Revivers :
          /\ json_string' = text
          /\ ext_reviver' = r
          /\ scan' = ScanStart(text, "replaceFromString")
    /\ pc' = "scan"
    /\ fn' = "parse"
    /\ origin' = "caller"
    /\ UNCHANGED <<engine, data, replacer, space, result>>
    /\ UNCHANGED pageVars

\* one pass of the while loop of processUnquoted
ScanLoop ==
    /\ pc = "scan"
    /\ scan.unprocessed # ""
    /\ scan' = ScanPass(scan)
    /\ UNCHANGED <<engine, pc, fn, origin, json_string, ext_reviver, data, replacer,
                   space, result>>
    /\ UNCHANGED pageVars

\* the loop has ended: the native decode with the composite reviver, and
\* the catch block
Decode ==
    /\ pc = "scan"
    /\ fn = "parse"
    /\ scan.unprocessed = ""
    /\ result' = ParseDecode(engine, scan.transformed_data, ext_reviver)
    /\ pc' = "done"
    /\ UNCHANGED <<engine, fn, origin, json_string, ext_reviver, data, replacer, space,
                   scan>>
    /\ UNCHANGED pageVars

\* a caller runs SaferParser.processUnquoted(text, (section) => section)
CallProcessUnquoted ==
    /\ pc = "idle"
    /\ \E text \in ScanTexts :
          /\ json_string' = text
          /\ scan' = ScanStart(text, "identity")
    /\ pc' = "scan"
    /\ fn' = "processUnquoted"
    /\ origin' = "caller"
    /\ UNCHANGED <<engine, ext_reviver, data, replacer, space, result>>
    /\ UNCHANGED pageVars

\* the loop has ended in that call: transformed_data is returned
ScanReturn ==
    /\ pc = "scan"
    /\ fn = "processUnquoted"
    /\ scan.unprocessed = ""
    /\ result' = Ok(VStr(scan.transformed_data))
    /\ pc' = "done"
    /\ UNCHANGED <<engine, fn, origin, json_string, ext_reviver, data, replacer, space,
                   scan>>
    /\ UNCHANGED pageVars

\* a caller runs SaferParser.stringify(d, rep, sp)
CallStringify ==
    /\ pc = "idle"
    /\ \E d \in Documents, rep \in Replacers, sp \in Spacings :
          /\ data' = d
          /\ replacer' = rep
          /\ space' = sp
          /\ result' = stringify(d, rep, sp)
    /\ pc' = "done"
    /\ fn' = "stringify"
    /\ origin' = "caller"
    /\ UNCHANGED <<engine, json_string, ext_reviver, scan>>
    /\ UNCHANGED pageVars

\* the caller hands the text stringify returned to SaferParser.parse
ParseBack ==
    /\ pc = "done"
    /\ fn = "stringify"
    /\ result.err = ""
    /\ json_string' = result.v.s
    /\ ext_reviver' = "none"
    /\ scan' = ScanStart(result.v.s, "replaceFromString")
    /\ pc' = "scan"
    /\ fn' = "parse"
    /\ origin' = "stringify"
    /\ UNCHANGED <<engine, data, replacer, space, result>>
    /\ UNCHANGED pageVars

\* the caller is done with the result
Return ==
    /\ pc = "done"
    /\ pc' = "idle"
    /\ fn' = "none"
    /\ origin' = "caller"
    /\ json_string' = ""
    /\ ext_reviver' = "none"
    /\ data' = VUndefined
    /\ replacer' = NoReplacer
    /\ space' = 0
    /\ scan' = ScanStart("", "replaceFromString")
    /\ result' = NoResult
    /\ UNCHANGED engine
    /\ UNCHANGED pageVars

Next ==
    \/ CallParse
    \/ ScanLoop
    \/ Decode
    \/ CallProcessUnquoted
    \/ ScanReturn
    \/ CallStringify
    \/ ParseBack
    \/ Return

Spec == Init /\ [][Next]_vars

(***************************************************************************)
(* The page: SaferParser.register and deregister, and the Loader           *)
(***************************************************************************)
\* the most loads of one endpoint the model lets the poller have issued
MaxRequests == 3

\* a task runs to completion: no promise reaction (a then, catch or finally
\* callback of the poller) is waiting to run. A load is "sent" until its
\* onreadystatechange runs at readyState 4, "hung" once that handler has
\* thrown in JSON.parse (the promise is never settled), "resolved" or
\* "rejected" with the then or the catch callback waiting, "finally" with
\* the finally callback waiting
NoMicrotask ==
    \A name \in DOMAIN requests : \A i \in DOMAIN requests[name] :
        requests[name][i] \in {"sent", "hung"}

\* SaferParser.register() with stringify left as it is
registerParseOnly ==
    /\ NoMicrotask
    /\ JSON' = [JSON EXCEPT !.parse = "SaferParser.parse"]
    /\ last_call' = "register"
    /\ prev_call' = last_call
    /\ UNCHANGED <<codecVars, SaferParser, endpoints, requests, setup>>

\* SaferParser.register()
register ==
    /\ NoMicrotask
    /\ JSON' = [parse |-> "SaferParser.parse", stringify |-> "SaferParser.stringify"]
    /\ last_call' = "register"
    /\ prev_call' = last_call
    /\ UNCHANGED <<codecVars, SaferParser, endpoints, requests, setup>>

\* SaferParser.deregister()
deregister ==
    /\ NoMicrotask
    /\ JSON' = [parse |-> SaferParser.language_parse,
                stringify |-> SaferParser.language_stringify]
    /\ last_call' = "deregister"
    /\ prev_call' = last_call
    /\ UNCHANGED <<codecVars, SaferParser, endpoints, requests, setup>>

\* Loader.poller(context, ...) up to the call of load: the context and the
\* endpoint's loads after it
poller(context, issued) ==
    IF context.running
    THEN [context |-> [context EXCEPT !.queued = TRUE], requests |-> issued]
    ELSE [context |-> [context EXCEPT !.running = TRUE, !.queued = FALSE],
          requests |-> Append(issued, "sent")]

\* Loader.registerPoller(name, ...) for a polled endpoint: the old timer is
\* cleared and a new one set
RegisterPoller(name) ==
    /\ NoMicrotask
    /\ ~endpoints[name].startup
    /\ endpoints' = [endpoints EXCEPT ![name].interval = TRUE]
    /\ UNCHANGED <<codecVars, JSON, SaferParser, last_call, prev_call, requests, setup>>

\* the timer fires: the bound handler, poller, runs
Tick(name) ==
    /\ NoMicrotask
    /\ ~endpoints[name].startup
    /\ endpoints[name].interval
    /\ Len(requests[name]) < MaxRequests
    /\ endpoints' = [endpoints EXCEPT ![name] = poller(@, requests[name]).context]
    /\ requests' = [requests EXCEPT ![name] = poller(endpoints[name], @).requests]
    /\ UNCHANGED <<codecVars, JSON, SaferParser, last_call, prev_call, setup>>

\* onreadystatechange of a poller's load at readyState 4: resolve(dataObj),
\* reject(responseText), or JSON.parse throws and neither is called
XhrDone(name) ==
    /\ NoMicrotask
    /\ \E i \in DOMAIN requests[name], outcome \in {"resolved", "rejected", "hung"} :
          /\ requests[name][i] = "sent"
          /\ requests' = [requests EXCEPT ![name][i] = outcome]
    /\ UNCHANGED <<codecVars, JSON, SaferParser, last_call, prev_call, endpoints, setup>>

\* the then callback: the error handler for each of data.errors and the
\* data callback return, or one of them throws
Then(name) ==
    /\ \E i \in DOMAIN requests[name], after \in {"finally", "rejected"} :
          /\ requests[name][i] = "resolved"
          /\ requests' = [requests EXCEPT ![name][i] = after]
    /\ UNCHANGED <<codecVars, JSON, SaferParser, last_call, prev_call, endpoints, setup>>

\* the catch callback: the error handler runs; the finally callback follows
\* whether it returns or throws
Catch(name) ==
    /\ \E i \in DOMAIN requests[name] :
          /\ requests[name][i] = "rejected"
          /\ requests' = [requests EXCEPT ![name][i] = "finally"]
    /\ UNCHANGED <<codecVars, JSON, SaferParser, last_call, prev_call, endpoints, setup>>

\* the finally callback without its follow-up call
FinallyDropsQueue(name) ==
    /\ \E i \in DOMAIN requests[name] :
          /\ requests[name][i] = "finally"
          /\ endpoints' = [endpoints EXCEPT ![name].running = FALSE]
          /\ requests' = [requests EXCEPT ![name] =
                              SubSeq(@, 1, i - 1) \o SubSeq(@, i + 1, Len(@))]
    /\ UNCHANGED <<codecVars, JSON, SaferParser, last_call, prev_call, setup>>

\* the finally callback and, when queued, the poller call it makes
Finally(name) ==
    /\ \E i \in DOMAIN requests[name] :
          /\ requests[name][i] = "finally"
          /\ LET rest    == SubSeq(requests[name], 1, i - 1)
                            \o SubSeq(requests[name], i + 1, Len(requests[name]))
                 cleared == [endpoints[name] EXCEPT !.running = FALSE]
             IN  IF cleared.queued
                 THEN /\ endpoints' = [endpoints EXCEPT ![name] = poller(cleared, rest).context]
                      /\ requests' = [requests EXCEPT ![name] = poller(cleared, rest).requests]
                 ELSE /\ endpoints' = [endpoints EXCEPT ![name] = cleared]
                      /\ requests' = [requests EXCEPT ![name] = rest]
    /\ UNCHANGED <<codecVars, JSON, SaferParser, last_call, prev_call, setup>>

\* Loader.setup(): a load for every startup endpoint without data, counted
\* in pending; called when no load of an earlier call is in flight
SetupCall ==
    /\ NoMicrotask
    /\ \A name \in DOMAIN setup.loads : setup.loads[name] # "sent"
    /\ setup' = [promise |-> "pending",
                 pending |-> Cardinality({name \in DOMAIN setup.loads :
                                             endpoints[name].data = "undefined"}),
                 loads   |-> [name \in DOMAIN setup.loads |->
                                 IF endpoints[name].data = "undefined"
                                 THEN "sent" ELSE "none"]]
    /\ UNCHANGED <<codecVars, JSON, SaferParser, last_call, prev_call, endpoints, requests>>

\* a load of setup ends: its then callback assigns the data and resolves at
\* pending 0; or catch(reject); or JSON.parse throws in onreadystatechange
\* and the load's promise is never settled
SetupResponse(name) ==
    /\ NoMicrotask
    /\ setup.loads[name] = "sent"
    /\ \E outcome \in {"done", "failed", "hung"} :
          /\ setup' =
                [promise |->
                     IF /\ setup.promise = "pending"
                        /\ \/ outcome = "failed"
                           \/ outcome = "done" /\ setup.pending - 1 = 0
                     THEN (IF outcome = "done" THEN "resolved" ELSE "rejected")
                     ELSE setup.promise,
                 pending |-> IF outcome = "done" THEN setup.pending - 1 ELSE setup.pending,
                 loads   |-> [setup.loads EXCEPT ![name] = outcome]]
          /\ endpoints' = [endpoints EXCEPT ![name].data =
                              IF outcome = "done" THEN "loaded" ELSE @]
    /\ UNCHANGED <<codecVars, JSON, SaferParser, last_call, prev_call, requests>>

NextPage ==
    \/ register
    \/ deregister
    \/ \E name \in DOMAIN endpoints : RegisterPoller(name)
    \/ \E name \in DOMAIN requests : Tick(name)
    \/ \E name \in DOMAIN requests : XhrDone(name)
    \/ \E name \in DOMAIN requests : Then(name)
    \/ \E name \in DOMAIN requests : Catch(name)
    \/ \E name \in DOMAIN requests : Finally(name)
    \/ SetupCall
    \/ \E name \in DOMAIN setup.loads : SetupResponse(name)

SpecPage == Init /\ [][NextPage]_vars

\* every load is answered and every queued callback runs
FairSpecPage ==
    /\ SpecPage
    /\ \A name \in DOMAIN NewEndpoints :
          /\ WF_vars(~NewEndpoints[name].startup /\ XhrDone(name))
          /\ WF_vars(~NewEndpoints[name].startup /\ Then(name))
          /\ WF_vars(~NewEndpoints[name].startup /\ Catch(name))
          /\ WF_vars(~NewEndpoints[name].startup /\ Finally(name))

(***************************************************************************)
(* Properties                                                              *)
(***************************************************************************)
ParseDone == pc = "done" /\ fn = "parse"

\* parse was called on a text of ParseTexts with no external reviver
PlainParseDone == ParseDone /\ origin = "caller" /\ ext_reviver = "none"

\* parse has read back the text stringify returned
RoundTripDone == ParseDone /\ origin = "stringify"

StringifyDone == pc = "done" /\ fn = "stringify"

\* the strict native decoder takes the text
NativeAccepts(text) == ParseText(Chars(text)).bad = 0

\* what the strict native decoder alone makes of the text
NativeValue(text) == ParseText(Chars(text)).v

\* C1: round trip: for every extended value v (the infinities, NaN, null,
\* every big integer), alone or nested, and any indent, stringify succeeds
\* and parse(stringify(v)) is v, a big integer digit for digit.
RoundTrip_C1 ==
    (data \in ExtendedDocs /\ replacer = NoReplacer) =>
        /\ StringifyDone => result.err = ""
        /\ RoundTripDone => result = Ok(data)

\* 2^53 - 1, the largest integer below which every integer is a double
MaxSafeInteger == <<"9","0","0","7","1","9","9","2","5","4","7","4","0","9","9","1">>

RECURSIVE DropInEqual(_, _)
\* got is deep-equal to native, but for big integers standing where native
\* holds the double nearest to an integer beyond the exact range
DropInEqual(native, got) ==
    \/ got = native
    \/ /\ got.t = "bigint" /\ native.t = "number"
       /\ native.frac = "" /\ native.neg = got.neg
       /\ DecLess(MaxSafeInteger, Chars(got.digits))
       /\ Str(RoundToDouble(Chars(got.digits))) = native.int
    \/ /\ got.t = "array" /\ native.t = "array"
       /\ Len(got.e) = Len(native.e)
       /\ \A n \in 1..Len(got.e) : DropInEqual(native.e[n], got.e[n])
    \/ /\ got.t = "object" /\ native.t = "object"
       /\ got.k = native.k
       /\ \A n \in 1..Len(got.k) : DropInEqual(native.v[n], got.v[n])

\* C2: drop-in decode: every text the strict native decoder accepts is
\* decoded, with no reviver, to a value deep-equal to the native result,
\* except that an integer beyond the exact range may be a big integer.
DropInDecode_C2 ==
    (PlainParseDone /\ NativeAccepts(json_string)) =>
        /\ result.err = ""
        /\ DropInEqual(NativeValue(json_string), result.v)

\* the value each text of LiteralTexts is to decode to
LiteralValue(text) ==
    CASE text = "-Infinity"   -> VInf(TRUE)
      [] text = "Infinity"    -> VInf(FALSE)
      [] text = "NaN"         -> VNaN
      [] text = "null"        -> VNull
      [] text = "[-Infinity]" -> VArr(<<VInf(TRUE)>>)
      [] text = "[Infinity]"  -> VArr(<<VInf(FALSE)>>)
      [] text = "{\"a\": NaN}" -> VObj(<<"a">>, <<VNaN>>)
      [] text = "{\"a\": null, \"b\": -Infinity}" ->
            VObj(<<"a", "b">>, <<VNull, VInf(TRUE)>>)

\* C3: an unquoted -Infinity, Infinity, NaN or null, as the whole text or
\* the one extended token of its segment, decodes to negative infinity,
\* positive infinity, not-a-number and null.
LiteralDecodes_C3 ==
    (PlainParseDone /\ json_string \in LiteralTexts) =>
        result = Ok(LiteralValue(json_string))

\* the number of extended values held in a value
RECURSIVE ExtCount(_)
RECURSIVE SumExt(_, _)
SumExt(vs, n) == IF n = 0 THEN 0 ELSE ExtCount(vs[n]) + SumExt(vs, n - 1)

ExtCount(v) ==
    CASE v.t \in {"infinity", "nan", "null", "bigint"} -> 1
      [] v.t = "array"  -> SumExt(v.e, Len(v.e))
      [] v.t = "object" -> SumExt(v.v, Len(v.v))
      [] OTHER -> 0

Occurrences(s, word) ==
    Cardinality({i \in 1..Len(s) : IsWord(s, i, Chars(word))})

\* the extended tokens of a text without string literals: Infinity (signed
\* or not), NaN, null, and the runs of digits the table matches
TokenCount(text) ==
    LET s == Chars(text)
    IN  Occurrences(s, "Infinity") + Occurrences(s, "NaN") + Occurrences(s, "null")
        + Cardinality({i \in 1..Len(s) : IntMatchAt(s, i) > 0})

\* C4: when one unquoted segment holds two or more extended tokens, every
\* one of them is rewritten, and the decoded value holds one extended
\* value per occurrence.
EveryOccurrence_C4 ==
    (PlainParseDone /\ json_string \in MultiTokenTexts) =>
        /\ result.err = ""
        /\ ExtCount(result.v) = TokenCount(json_string)

\* the value each text of QuotedTexts is to decode to: the native one,
\* with the sentinel where the text holds a token outside quotes
QuotedValue(text) ==
    CASE text = "[\"\\\"\", Infinity]" -> VArr(<<VStr("\""), VInf(FALSE)>>)
      [] text = "{\"x\": \"Infinity\", \"y\": Infinity}" ->
            VObj(<<"x", "y">>, <<VStr("Infinity"), VInf(FALSE)>>)
      [] OTHER -> NativeValue(text)

\* C5: quoted content is never rewritten: a string literal, also one that
\* reads like an extended token or holds escaped quotes, reaches the
\* native decoder unchanged and decodes to the ordinary string, while a
\* token outside quotes decodes to its sentinel.
QuotedUntouched_C5 ==
    (PlainParseDone /\ json_string \in QuotedTexts) =>
        /\ NativeAccepts(json_string) => scan.transformed_data = json_string
        /\ result = Ok(QuotedValue(json_string))

\* a placeholder wrapper somewhere in a value
RECURSIVE HasWrapper(_)
HasWrapper(v) ==
    \/ v.t = "object" /\ \E n \in 1..Len(v.k) : v.k[n] = CONVERSION_KEY \/ HasWrapper(v.v[n])
    \/ v.t = "array" /\ \E n \in 1..Len(v.e) : HasWrapper(v.e[n])

\* a value with every string in it upper-cased
RECURSIVE UpperValue(_)
UpperValue(v) ==
    CASE v.t = "string" -> VStr(Str(ToUpperCase(Chars(v.s))))
      [] v.t = "array"  -> VArr([n \in 1..Len(v.e) |-> UpperValue(v.e[n])])
      [] v.t = "object" -> VObj(v.k, [n \in 1..Len(v.v) |-> UpperValue(v.v[n])])
      [] OTHER -> v

\* C6: the external reviver composes with the internal one: what parse
\* returns with the upper-casing reviver is what it returns without one,
\* with the caller-visible strings upper-cased; no placeholder wrapper is
\* left in a returned value; {"x": "Infinity", "y": Infinity} gives x the
\* string INFINITY and y positive infinity.
ReviversCompose_C6 ==
    (ParseDone /\ origin = "caller") =>
        LET plain == ParseDecode(engine, scan.transformed_data, "none")
        IN  /\ result.err = "" => ~HasWrapper(result.v)
            /\ (ext_reviver = "upper" /\ plain.err = "") =>
                    result = Ok(UpperValue(plain.v))
            /\ (ext_reviver = "upper" /\ json_string = "{\"x\": \"Infinity\", \"y\": Infinity}") =>
                    result = Ok(VObj(<<"x", "y">>, <<VStr("INFINITY"), VInf(FALSE)>>))

\* what an integer literal is to decode to: the Number when its native
\* parse prints as the literal, else the big integer of its digits
ExpectedInt(lit) ==
    IF ParseIntToString(Chars(lit)) = Chars(lit) THEN ParseIntValue(Chars(lit))
    ELSE BigIntOf(Chars(lit)).v

\* the value standing in the place pl of a decoded text
ValueAt(pl, v) ==
    CASE pl[1] = "" -> v
      [] pl[1] \in {"[", "[ ", "[\n"} /\ v.t = "array" /\ Len(v.e) = 1 -> v.e[1]
      [] pl[1] \in {"[1,", "[1, "} /\ v.t = "array" /\ Len(v.e) = 2 -> v.e[2]
      [] pl[1] \in {"{\"a\":", "{\"a\": "} /\ v.t = "object" /\ Len(v.v) = 1 -> v.v[1]
      [] OTHER -> VUndefined

\* C7: an unquoted integer literal of ten or more digits, at any value
\* position and with or without white space before it, decodes to the
\* Number when the native parse prints as the literal and else to the big
\* integer with the literal's digits; never to a Number of another value.
IntegerPrecision_C7 ==
    PlainParseDone =>
        \A pl \in ValuePlaces, lit \in IntLiterals :
            json_string = pl[1] \o lit \o pl[2] =>
                /\ result.err = ""
                /\ ValueAt(pl, result.v) = ExpectedInt(lit)
                /\ ValueAt(pl, result.v).t = "number" =>
                        NumToString(ValueAt(pl, result.v)) = lit

\* C8: pass-through: a document of objects, arrays, booleans, finite
\* numbers and strings is encoded, at any indent, to text the strict
\* decoder accepts, and decoding that text gives the document back.
PassThrough_C8 ==
    (data \in PlainDocs /\ replacer = NoReplacer) =>
        /\ StringifyDone => (result.err = "" /\ NativeAccepts(result.v.s))
        /\ RoundTripDone => result = Ok(data)

\* a value without the object fields whose key is not in the list
RECURSIVE OmitKeys(_, _)
RECURSIVE KeepMembers(_, _, _, _)
KeepMembers(obj, keys, n, acc) ==
    IF n > Len(obj.k) THEN acc
    ELSE KeepMembers(obj, keys, n + 1,
            IF \E m \in 1..Len(keys) : keys[m] = obj.k[n]
            THEN VObj(Append(acc.k, obj.k[n]), Append(acc.v, OmitKeys(obj.v[n], keys)))
            ELSE acc)

OmitKeys(v, keys) ==
    CASE v.t = "array"  -> VArr([n \in 1..Len(v.e) |-> OmitKeys(v.e[n], keys)])
      [] v.t = "object" -> KeepMembers(v, keys, 1, VObj(<<>>, <<>>))
      [] OTHER -> v

\* C9: with a key list L, stringify returns the text of the value with
\* exactly the object fields whose key is not in L left out, everything
\* else (the root, array elements, allowed fields) written as without L.
KeyAllowList_C9 ==
    (StringifyDone /\ replacer.kind = "array" /\ data.t = "object") =>
        result = stringify(OmitKeys(data, replacer.keys), NoReplacer, space)

QuotesIn(str) == {k \in 1..Len(str) : SubSeq(str, k, k) = QUOTE}

\* C11: after any sequence of register() and deregister() calls since the
\* register at module load, JSON.parse and JSON.stringify are the codec's
\* functions exactly when the last call was register and else the native
\* ones captured at load, so that repeating a call changes nothing; and
\* language_parse and language_stringify are always the native functions.
Lifecycle_C11 ==
    /\ SaferParser = [language_parse |-> NativeJSON.parse,
                      language_stringify |-> NativeJSON.stringify]
    /\ IF last_call = "register"
       THEN JSON = [parse |-> "SaferParser.parse", stringify |-> "SaferParser.stringify"]
       ELSE JSON = NativeJSON

\* register() has run again after a deregister()
Witness_C11 ==
    /\ prev_call = "deregister"
    /\ last_call = "register"
    /\ JSON.stringify = "SaferParser.stringify"

\* C12: for every text the loop of processUnquoted terminates (each pass
\* shortens what is left); with the identity as process function the
\* sections, concatenated, are the text; sections alternate unquoted,
\* quoted, ... from unquoted; and every section but possibly the last ends
\* with the only double quote it holds.
SegmentIdentity_C12 ==
    (pc \in {"scan", "done"} /\ fn \in {"parse", "processUnquoted"}) =>
        /\ JoinStrings(scan.sections, "") \o scan.unprocessed = json_string
        /\ scan.process_function = "identity" =>
              /\ scan.transformed_data = JoinStrings(scan.sections, "")
              /\ pc = "done" => result = Ok(VStr(json_string))
        /\ scan.state = (IF Len(scan.sections) % 2 = 0 THEN UNQUOTED ELSE QUOTED)
        /\ \A i \in DOMAIN scan.sections :
              /\ scan.sections[i] # ""
              /\ QuotesIn(scan.sections[i]) \subseteq {Len(scan.sections[i])}
              /\ (i < Len(scan.sections) \/ scan.unprocessed # "") =>
                    QuotesIn(scan.sections[i]) # {}
        /\ scan.unprocessed # "" =>
              Len(ScanPass(scan).unprocessed) < Len(scan.unprocessed)

\* processUnquoted has returned on a text of three double quotes
Witness_C12 ==
    /\ pc = "done"
    /\ fn = "processUnquoted"
    /\ json_string = "a\"b\"c\"d"
    /\ scan.sections = <<"a\"", "b\"", "c\"", "d">>
    /\ result = Ok(VStr(json_string))

\* the loads of a polled endpoint that are on their way: sent and not yet
\* answered, or answered with the poller's callbacks still to run
Outstanding(name) ==
    {i \in DOMAIN requests[name] : requests[name][i] # "hung"}

\* C13: for a polled endpoint, under any interleaving of ticks and request
\* completions, at most one load is outstanding; a tick while running only
\* sets queued; and running is true exactly while a load is outstanding.
SingleFlight_C13 ==
    \A name \in DOMAIN requests :
        /\ Cardinality(Outstanding(name)) <= 1
        /\ endpoints[name].queued => endpoints[name].running
        /\ endpoints[name].running <=> Outstanding(name) # {}

\* the polled endpoints
Polled == {name \in DOMAIN NewEndpoints : ~NewEndpoints[name].startup}

\* how many loads of a polled endpoint are in a phase
InPhase(issued, phase) == Cardinality({i \in DOMAIN issued : issued[i] = phase})

\* the load's promise is settled and callbacks of the poller are still to run
Settling(name) ==
    \E i \in DOMAIN requests[name] : requests[name][i] \in {"resolved", "rejected", "finally"}

\* a step of the finally callback: it clears running and starts exactly one
\* load when queued is set, none otherwise; and a step that sets running
\* (a tick on an idle endpoint) starts a load
FollowUpStep(name) ==
    /\ (InPhase(requests[name], "finally") > 0 /\ requests'[name] # requests[name]) =>
          /\ InPhase(requests'[name], "finally") = InPhase(requests[name], "finally") - 1
          /\ ~endpoints'[name].queued
          /\ IF endpoints[name].queued
             THEN /\ endpoints'[name].running
                  /\ InPhase(requests'[name], "sent") = InPhase(requests[name], "sent") + 1
             ELSE /\ ~endpoints'[name].running
                  /\ InPhase(requests'[name], "sent") = InPhase(requests[name], "sent")
    /\ (~endpoints[name].running /\ endpoints'[name].running) =>
          InPhase(requests'[name], "sent") = InPhase(requests[name], "sent") + 1

\* C14: whenever a poll request settles (resolved, rejected, or a callback
\* throws) the finally callback runs: running is cleared and exactly one
\* follow-up load is started if ticks arrived meanwhile (any number, kept
\* as the one flag queued), none otherwise; so no tick is lost: a tick on
\* an idle endpoint starts a load and a queued tick is followed by a load,
\* provided the load in flight settles.
QueuedFollowUp_C14 ==
    /\ [][\A name \in Polled : FollowUpStep(name)]_vars
    /\ \A name \in Polled :
          /\ Settling(name) ~> ~Settling(name)
          /\ endpoints[name].queued ~>
                (~endpoints[name].queued \/ InPhase(requests[name], "hung") > 0)

\* a load has settled, its finally callback is due, and a tick is queued
Witness_C14 ==
    /\ requests["events"] = <<"finally">>
    /\ endpoints["events"].queued
    /\ endpoints["events"].running

\* C15: the promise of setup() settles once every load it issued is
\* complete; it resolves only after every startup endpoint has its data; it
\* rejects if a load fails; and it finishes as well when every startup
\* dictionary was loaded before the call and no load is needed.
SetupCompletes_C15 ==
    /\ setup.promise = "resolved" =>
          \A name \in DOMAIN setup.loads : endpoints[name].data = "loaded"
    /\ (\E name \in DOMAIN setup.loads : setup.loads[name] = "failed") =>
          setup.promise = "rejected"
    /\ setup.promise = "pending" =>
          \E name \in DOMAIN setup.loads : setup.loads[name] \in {"sent", "hung"}

====
